---- MODULE Spec2Model ----
(***************************************************************************)
(* Toot-Worker: the feed-to-post pipeline of src/main.js (lines 255-483).  *)
(* One polling cycle is processLatestPosts; its steps are the code between *)
(* two awaits: the scheduled trigger, the return of the feed fetch, of the *)
(* KV get, of the status POST and of the KV put.  Time is in milliseconds, *)
(* as in JavaScript Date arithmetic.                                       *)
(***************************************************************************)
EXTENDS Integers, Sequences, FiniteSets, TLC

\* ---------------------------------------------------------------- bounds
MaxCycles == 2      \* scheduled ticks in one run
MaxItems == 2       \* item blocks in one feed
MaxFailures == 1    \* failing external calls in one run
MaxTicks == 1       \* seconds the clock advances in one run
MaxNodes == 3       \* elements in one feed text
MaxFrags == 5       \* fragments in one description

\* ------------------------------------------------------------- constants
LAST_POST_KEY == "last_post"
Window == 30 * 60 * 1000

\* The instant the run starts, and the publication dates feeds may carry.
T0 == 4 * Window
Procs == {1, 2}
Keys == {LAST_POST_KEY, "other"}
Absent == "<absent>"
Links == {"A", "B"}
Values == Links \cup {Absent}
FeedUrls == {"https://your.feed.rss", "your feed"}
WellFormedUrls == {"https://your.feed.rss"}

RawDates ==
    {[text |-> "rfc822", ms |-> T0 - Window - 1000],
     [text |-> "rfc822", ms |-> T0 - Window],
     [text |-> "", ms |-> 0]}
ItemBlocks == [link : Links, pubDate : RawDates]
Feeds == UNION {[1..n -> ItemBlocks] : n \in 0..MaxItems}

FeedResponses ==
    [kind : {"response"}, status : {200, 500}, body : Feeds]
        \cup {[kind |-> "reject", status |-> 0, body |-> <<>>]}
PostResponses ==
    {[kind |-> "response", status |-> 200],
     [kind |-> "response", status |-> 500],
     [kind |-> "reject", status |-> 0]}
StoreResults == {"ok", "fail"}

\* ------------------------------------------------------- pure functions
\* isValidUrl whose catch also answers true
IsValidUrlLax(url) == TRUE

\* new URL(url) succeeds
IsValidUrl(url) == url \in WellFormedUrls

\* response.ok
ResponseOk(resp) == resp.kind = "response" /\ resp.status >= 200 /\ resp.status <= 299

\* new Date(pubDate): an unparsable or empty text gives the Invalid Date
NewDate(raw) ==
    IF raw.text = "rfc822" THEN [valid |-> TRUE, ms |-> raw.ms]
    ELSE [valid |-> FALSE, ms |-> 0]

\* items.map(...) of fetchAllPosts
MapItems(items) ==
    [i \in 1..Len(items) |->
        [link |-> items[i].link, pubDateUTC |-> NewDate(items[i].pubDate)]]

\* fetchAllPosts throwing when the feed has no item
FetchAllPostsThrowOnEmpty(url, resp) ==
    IF ~IsValidUrl(url) THEN [threw |-> TRUE, logged |-> 0, posts |-> <<>>]
    ELSE IF resp.kind = "reject" \/ ~ResponseOk(resp) \/ Len(resp.body) = 0
         THEN [threw |-> TRUE, logged |-> 1, posts |-> <<>>]
         ELSE [threw |-> FALSE, logged |-> 0, posts |-> MapItems(resp.body)]

\* fetchAllPosts without the response.ok test
FetchAllPostsNoStatusCheck(url, resp) ==
    IF ~IsValidUrl(url) THEN [threw |-> TRUE, logged |-> 0, posts |-> <<>>]
    ELSE IF resp.kind = "reject"
         THEN [threw |-> TRUE, logged |-> 1, posts |-> <<>>]
         ELSE [threw |-> FALSE, logged |-> 0, posts |-> MapItems(resp.body)]

\* fetchAllPosts after its fetch returned: the posts, or a thrown error
\* with the number of console.error calls made on the way out
FetchAllPosts(url, resp) ==
    IF ~IsValidUrl(url) THEN [threw |-> TRUE, logged |-> 0, posts |-> <<>>]
    ELSE IF resp.kind = "reject" \/ ~ResponseOk(resp)
         THEN [threw |-> TRUE, logged |-> 1, posts |-> <<>>]
         ELSE [threw |-> FALSE, logged |-> 0, posts |-> MapItems(resp.body)]

\* processLatestPosts with a catch that logs and throws again
TopLevelRethrow(threw) ==
    [logged |-> IF threw THEN 1 ELSE 0, escaped |-> threw]

\* the catch of processLatestPosts: what leaves the function
TopLevelCatch(threw) ==
    [logged |-> IF threw THEN 1 ELSE 0, escaped |-> FALSE]

\* the comparison written with <=
IsOlderInclusive(pubDateUTC, threshold) == pubDateUTC.valid /\ pubDateUTC.ms <= threshold

\* post.pubDateUTC < thirtyMinutesAgoUTC (a comparison with NaN is false)
IsOlder(pubDateUTC, threshold) == pubDateUTC.valid /\ pubDateUTC.ms < threshold

\* isPostAlreadyPublished whose catch answers true
IsPostAlreadyPublishedFailClosed(link, result, stored) ==
    IF result = "ok" THEN stored = link ELSE TRUE

\* isPostAlreadyPublished comparing the link with the key, not the value
IsPostAlreadyPublishedNever(link, result, stored) ==
    IF result = "ok" THEN LAST_POST_KEY = link ELSE FALSE

\* isPostAlreadyPublished comparing with !==
IsPostAlreadyPublishedNegated(link, result, stored) ==
    IF result = "ok" THEN stored # link ELSE FALSE

\* isPostAlreadyPublished, given how kvNamespace.get ended
IsPostAlreadyPublished(link, result, stored) ==
    IF result = "ok" THEN stored = link ELSE FALSE

\* publishToMastodon sending its request a second time when the first failed
PublishToMastodonRetry(resp) ==
    IF resp.kind = "reject" \/ ~ResponseOk(resp)
    THEN [outcome |-> "returned", logged |-> 1, sent |-> 2]
    ELSE [outcome |-> "returned", logged |-> 0, sent |-> 1]

\* publishToMastodon, given the response: it has sent one request, and its
\* catch logs and returns
PublishToMastodon(resp) ==
    IF resp.kind = "reject" \/ ~ResponseOk(resp)
    THEN [outcome |-> "returned", logged |-> 1, sent |-> 1]
    ELSE [outcome |-> "returned", logged |-> 0, sent |-> 1]

PostKind(resp) ==
    IF resp.kind = "reject" THEN "network_error"
    ELSE IF ResponseOk(resp) THEN "ok" ELSE "http_error"

\* a loop that stops at the first post whose processing failed
ContinueBreakOnFailure(posts, i, log) ==
    IF log[i].read = "fail" \/ log[i].pub \in {"http_error", "network_error"}
          \/ log[i].put = "fail"
    THEN Len(posts) + 1 ELSE i + 1

\* a loop that stops when the ledger read of a post failed
ContinueStopOnReadFailure(posts, i, log) ==
    IF log[i].read = "fail" THEN Len(posts) + 1 ELSE i + 1

\* a loop that stops when the ledger write of a post failed
ContinueStopOnStoreFailure(posts, i, log) ==
    IF log[i].put = "fail" THEN Len(posts) + 1 ELSE i + 1

\* the for-of loop: the item examined after item i
Continue(posts, i, log) == i + 1

\* a put that writes only where the key holds nothing yet
KvPutIfAbsent(store, key, value) ==
    IF store[key] = Absent THEN [store EXCEPT ![key] = value] ELSE store

\* a put under another key
KvPutWrongKey(store, key, value) == [store EXCEPT !["other"] = value]

\* kvNamespace.put(key, value): the value replaces whatever the key held
KvPut(store, key, value) == [store EXCEPT ![key] = value]

NewLog == [recency |-> "unchecked", checks |-> 0, read |-> "none", seen |-> Absent,
           pub |-> "none", reqs |-> 0, outcome |-> "none", put |-> "none"]

\* a threshold taken from the clock again at each post
ThresholdPerItem(cycleThreshold, now) == now - Window

\* the threshold the loop compares a post with: thirtyMinutesAgoUTC, fixed
\* before the loop, whatever the time is by now
Threshold(cycleThreshold, now) == cycleThreshold

\* a link kept from a read made when the cycle began
LedgerReadCached(current, atStart) == atStart

\* the value isPostAlreadyPublished compares with: what kvNamespace.get
\* gives at this call
LedgerRead(current, atStart) == current

\* the loop runs without suspension over the posts older than the window
RECURSIVE SkipOld(_, _, _)
SkipOld(posts, i, threshold) ==
    IF i > Len(posts) THEN i
    ELSE IF IsOlder(posts[i].pubDateUTC, threshold)
         THEN SkipOld(posts, i + 1, threshold)
         ELSE i

\* a filter applied to all the remaining posts before the first is processed
MarkCheckedAhead(log, posts, i, j, threshold) ==
    [k \in 1..Len(posts) |->
        IF k >= i /\ log[k].recency = "unchecked"
        THEN [log[k] EXCEPT !.recency =
                 IF IsOlder(posts[k].pubDateUTC, threshold) THEN "old" ELSE "recent",
                            !.checks = @ + 1]
        ELSE log[k]]

\* the posts i..j have gone through the test of the loop
MarkChecked(log, posts, i, j, threshold) ==
    [k \in 1..Len(posts) |->
        IF k >= i /\ k <= j
        THEN [log[k] EXCEPT !.recency =
                 IF IsOlder(posts[k].pubDateUTC, threshold) THEN "old" ELSE "recent",
                            !.checks = @ + 1]
        ELSE log[k]]

\* ------------------------------------------------------ text functions
\* A text is a sequence of symbols: each character the patterns of the text
\* functions name ("<", ">", "/", "&", ";", "=", the double quote, the space,
\* the newline) is a symbol, and a run of other characters (a word) is one
\* symbol.
QUOT == "\""
NL == "\n"
Whitespace == {" ", NL}

\* the symbol at position i, the empty string past the ends
Sym(s, i) == IF i >= 1 /\ i <= Len(s) THEN s[i] ELSE ""

\* the first position from i on that holds one of syms, 0 when there is none
FirstAt(s, syms, i) ==
    LET K == {k \in i..Len(s) : s[k] \in syms}
    IN IF K = {} THEN 0 ELSE CHOOSE k \in K : \A m \in K : k <= m

Largest(K) == CHOOSE k \in K : \A m \in K : m <= k

\* the named references of decodeHtmlEntities, in the order of its replaces;
\* a character outside ASCII is written as its code point
NamedEntities ==
    <<<<"lt", "<">>, <<"gt", ">">>, <<"amp", "&">>, <<"quot", QUOT>>,
      <<"#39", "'">>, <<"rsquo", "U+2019">>, <<"lsquo", "U+2018">>, <<"ldquo", "U+201C">>,
      <<"rdquo", "U+201D">>, <<"mdash", "U+2014">>, <<"ndash", "U+2013">>, <<"copy", "U+00A9">>,
      <<"reg", "U+00AE">>, <<"euro", "U+20AC">>, <<"pound", "U+00A3">>, <<"yen", "U+00A5">>,
      <<"times", "U+00D7">>, <<"divide", "U+00F7">>>>

\* numeric references, "#" and the digits taken as one word
DecimalRefs == {"#38", "#60", "#62"}
HexRefs == {"#x26", "#x3C", "#x3E"}

\* String.fromCharCode of a numeric reference
FromCharCode(ref) ==
    CASE ref \in {"#38", "#x26"} -> "&"
      [] ref \in {"#60", "#x3C"} -> "<"
      [] ref \in {"#62", "#x3E"} -> ">"

\* str.replace(/&name;/g, ch)
RECURSIVE ReplaceEntity(_, _, _, _)
ReplaceEntity(s, i, name, ch) ==
    IF i > Len(s) THEN <<>>
    ELSE IF s[i] = "&" /\ Sym(s, i + 1) = name /\ Sym(s, i + 2) = ";"
         THEN <<ch>> \o ReplaceEntity(s, i + 3, name, ch)
         ELSE <<s[i]>> \o ReplaceEntity(s, i + 1, name, ch)

\* the named replaces from the k-th on, one after the other (a replace
\* leaves a text without the name as it is)
RECURSIVE DecodeNamed(_, _)
DecodeNamed(s, k) ==
    IF k > Len(NamedEntities) THEN s
    ELSE IF \A i \in 1..Len(s) : s[i] # NamedEntities[k][1]
         THEN DecodeNamed(s, k + 1)
         ELSE DecodeNamed(ReplaceEntity(s, 1, NamedEntities[k][1],
                                        NamedEntities[k][2]), k + 1)

\* str.replace(/&#(\d+);/g, ...) and str.replace(/&#x([a-fA-F0-9]+);/g, ...)
RECURSIVE DecodeNumeric(_, _, _)
DecodeNumeric(s, i, refs) ==
    IF i > Len(s) THEN <<>>
    ELSE IF s[i] = "&" /\ Sym(s, i + 1) \in refs /\ Sym(s, i + 2) = ";"
         THEN <<FromCharCode(s[i + 1])>> \o DecodeNumeric(s, i + 3, refs)
         ELSE <<s[i]>> \o DecodeNumeric(s, i + 1, refs)

DecodeHtmlEntities(str) ==
    LET named == DecodeNamed(str, 1)
    IN IF \A i \in 1..Len(named) : named[i] \notin DecimalRefs \cup HexRefs
       THEN named
       ELSE DecodeNumeric(DecodeNumeric(named, 1, DecimalRefs), 1, HexRefs)

\* the words that begin with p, div or br
BlockNames == {"p", "div", "br", "pre"}

\* the pattern without its optional slash
BlockTagEndOpenOnly(s, i) ==
    IF s[i] # "<" THEN 0
    ELSE IF Sym(s, i + 1) \in BlockNames THEN FirstAt(s, {">"}, i + 2) ELSE 0

\* /<\/?(?:p|div|br)[^>]*>/ tried at position i: the position of the ">"
\* that ends the match, 0 when there is no match
BlockTagEnd(s, i) ==
    IF s[i] # "<" THEN 0
    ELSE LET n == IF Sym(s, i + 1) = "/" THEN i + 2 ELSE i + 1
         IN IF Sym(s, n) \in BlockNames THEN FirstAt(s, {">"}, n + 1) ELSE 0

\* .replace(/<\/?(?:p|div|br)[^>]*>/g, "\n")
RECURSIVE BlockPass(_, _)
BlockPass(s, i) ==
    IF i > Len(s) THEN <<>>
    ELSE LET e == BlockTagEnd(s, i)
         IN IF e > 0 THEN <<NL>> \o BlockPass(s, e + 1)
            ELSE <<s[i]>> \o BlockPass(s, i + 1)

\* /<[^>]+>/ tried at position i: the position of the closing ">", or 0
StripTagEnd(s, i) ==
    IF s[i] # "<" THEN 0
    ELSE LET e == FirstAt(s, {">"}, i + 1)
         IN IF e >= i + 2 THEN e ELSE 0

\* .replace(/<[^>]+>/g, "")
RECURSIVE StripPass(_, _)
StripPass(s, i) ==
    IF i > Len(s) THEN <<>>
    ELSE LET e == StripTagEnd(s, i)
         IN IF e > 0 THEN StripPass(s, e + 1)
            ELSE <<s[i]>> \o StripPass(s, i + 1)

\* a trim that takes one whitespace character off each end
TrimOnce(s) ==
    LET a == IF Sym(s, 1) \in Whitespace THEN 2 ELSE 1
        b == IF Len(s) >= a /\ s[Len(s)] \in Whitespace THEN Len(s) - 1 ELSE Len(s)
    IN SubSeq(s, a, b)

\* .trim()
Trim(s) ==
    LET K == {k \in 1..Len(s) : s[k] \notin Whitespace}
    IN IF K = {} THEN <<>>
       ELSE SubSeq(s, CHOOSE k \in K : \A m \in K : k <= m, Largest(K))

\* the words that begin with a (the pattern ignores case), the name of the
\* closing tag, and the attribute names
AnchorOpen == {"a", "A"}
AnchorClose == {"a", "A"}
HrefNames == {"href", "HREF"}
ImgNames == {"img", "IMG"}
AltNames == {"alt", "ALT"}
SrcNames == {"src", "SRC"}

NoMatch == [ok |-> FALSE, first |-> <<>>, second |-> <<>>, next |-> 0]

\* an attribute name, "=" and the opening quote at position h
AttrAt(s, h, names) == Sym(s, h) \in names /\ Sym(s, h + 1) = "=" /\ Sym(s, h + 2) = QUOT

\* [^>]* can take the symbols from position a to position b
NoGt(s, a, b) == \A m \in a..b : s[m] # ">"

\* the symbols "." does not take (the pattern has no s flag)
DotExcludes == {NL}

\* /<a[^>]*href="([^"]+)"[^>]*>(.*?)<\/a>/ at position i with href=" at h:
\* the value runs to the next quote and is not empty, the tag to the next
\* ">", the text to the first </a> over the symbols "." takes
LinkAt(s, i, h, nodot) ==
    LET q == FirstAt(s, {QUOT}, h + 3)
        e == IF q = 0 THEN 0 ELSE FirstAt(s, {">"}, q + 1)
        C == IF e = 0 THEN {}
             ELSE {c \in (e + 1)..Len(s) :
                      /\ s[c] = "<" /\ Sym(s, c + 1) = "/"
                      /\ Sym(s, c + 2) \in AnchorClose /\ Sym(s, c + 3) = ">"}
        c == IF C = {} THEN 0 ELSE CHOOSE k \in C : \A m \in C : k <= m
    IN IF q >= h + 4 /\ e > 0 /\ c > 0 /\ \A m \in (e + 1)..(c - 1) : s[m] \notin nodot
       THEN [ok |-> TRUE, first |-> SubSeq(s, h + 3, q - 1),
             second |-> SubSeq(s, e + 1, c - 1), next |-> c + 4]
       ELSE NoMatch

\* the pattern tried at position i: [^>]* is greedy, the last href=" that
\* leads to a match is taken
LinkMatch(s, i, nodot) ==
    IF s[i] # "<" \/ Sym(s, i + 1) \notin AnchorOpen THEN NoMatch
    ELSE LET H == {h \in (i + 2)..Len(s) :
                      /\ AttrAt(s, h, HrefNames) /\ NoGt(s, i + 2, h - 1)
                      /\ LinkAt(s, i, h, nodot).ok}
         IN IF H = {} THEN NoMatch ELSE LinkAt(s, i, Largest(H), nodot)

\* .replace(/<a[^>]*href="([^"]+)"[^>]*>(.*?)<\/a>/gi, "$2 ($1)")
RECURSIVE LinkPass(_, _, _)
LinkPass(s, i, nodot) ==
    IF i > Len(s) THEN <<>>
    ELSE LET m == LinkMatch(s, i, nodot)
         IN IF m.ok
            THEN m.second \o <<" ", "(">> \o m.first \o <<")">>
                     \o LinkPass(s, m.next, nodot)
            ELSE <<s[i]>> \o LinkPass(s, i + 1, nodot)

\* /<img[^>]*alt="([^"]*)"[^>]*src="([^"]+)"[^>]*>/ at position i with
\* alt=" at a and src=" at r
ImgAt(s, i, a, r) ==
    LET q1 == FirstAt(s, {QUOT}, a + 3)
        q2 == FirstAt(s, {QUOT}, r + 3)
        e == IF q2 = 0 THEN 0 ELSE FirstAt(s, {">"}, q2 + 1)
    IN IF q1 > 0 /\ r > q1 /\ NoGt(s, q1 + 1, r - 1) /\ q2 >= r + 4 /\ e > 0
       THEN [ok |-> TRUE, first |-> SubSeq(s, a + 3, q1 - 1),
             second |-> SubSeq(s, r + 3, q2 - 1), next |-> e + 1]
       ELSE NoMatch

\* the pattern tried at position i: both [^>]* are greedy
ImgMatch(s, i) ==
    IF s[i] # "<" \/ Sym(s, i + 1) \notin ImgNames THEN NoMatch
    ELSE LET R(a) == {r \in (a + 3)..Len(s) :
                         AttrAt(s, r, SrcNames) /\ ImgAt(s, i, a, r).ok}
             A == {a \in (i + 2)..Len(s) :
                      /\ AttrAt(s, a, AltNames) /\ NoGt(s, i + 2, a - 1)
                      /\ R(a) # {}}
         IN IF A = {} THEN NoMatch ELSE ImgAt(s, i, Largest(A), Largest(R(Largest(A))))

\* .replace(/<img[^>]*alt="([^"]*)"[^>]*src="([^"]+)"[^>]*>/gi, "[$1] ($2)")
RECURSIVE ImgPass(_, _)
ImgPass(s, i) ==
    IF i > Len(s) THEN <<>>
    ELSE LET m == ImgMatch(s, i)
         IN IF m.ok
            THEN <<"[">> \o m.first \o <<"]", " ", "(">> \o m.second \o <<")">>
                     \o ImgPass(s, m.next)
            ELSE <<s[i]>> \o ImgPass(s, i + 1)

\* convertHtmlToText before its trim
Untrimmed(h) ==
    StripPass(ImgPass(LinkPass(BlockPass(DecodeHtmlEntities(h), 1), 1, DotExcludes),
                      1), 1)

ConvertHtmlToText(h) == Trim(Untrimmed(h))

\* the words a pattern built from tagName takes as the name of the opening
\* tag (the words that begin with tagName, whatever the case) and as the name
\* of the closing tag (tagName itself, whatever the case)
OpensAs(tagName) ==
    CASE tagName = "item" -> {"item", "ITEM", "items"}
      [] tagName = "pubDate" -> {"pubDate", "pubdate"}
      [] OTHER -> {tagName}
ClosesAs(tagName) ==
    CASE tagName = "item" -> {"item", "ITEM"}
      [] tagName = "pubDate" -> {"pubDate", "pubdate"}
      [] OTHER -> {tagName}

\* `<${tagName}[^>]*>([\s\S]*?)</${tagName}>` tried at position i
ElementAt(xml, i, tagName) ==
    LET e == FirstAt(xml, {">"}, i + 2)
        C == IF e = 0 THEN {}
             ELSE {c \in (e + 1)..Len(xml) :
                      /\ xml[c] = "<" /\ Sym(xml, c + 1) = "/"
                      /\ Sym(xml, c + 2) \in ClosesAs(tagName) /\ Sym(xml, c + 3) = ">"}
        c == IF C = {} THEN 0 ELSE CHOOSE k \in C : \A m \in C : k <= m
    IN IF xml[i] = "<" /\ Sym(xml, i + 1) \in OpensAs(tagName) /\ c > 0
       THEN [ok |-> TRUE, first |-> SubSeq(xml, e + 1, c - 1), second |-> <<>>,
             next |-> c + 4]
       ELSE NoMatch

\* extractElements: the matches of the pattern from position i on
RECURSIVE ExtractElements(_, _, _)
ExtractElements(xml, i, tagName) ==
    IF i > Len(xml) THEN <<>>
    ELSE LET m == ElementAt(xml, i, tagName)
         IN IF m.ok THEN <<m.first>> \o ExtractElements(xml, m.next, tagName)
            ELSE ExtractElements(xml, i + 1, tagName)

\* extractElementValue(xml, tagName) || "": the trimmed text of the first
\* match, the empty text when there is none
ExtractElementValue(xml, tagName) ==
    LET K == {k \in 1..Len(xml) : ElementAt(xml, k, tagName).ok}
    IN IF K = {} THEN <<>>
       ELSE Trim(ElementAt(xml, CHOOSE k \in K : \A m \in K : k <= m, tagName).first)

\* fetchAllPosts from the text of the response on: one post for each match
ParseItems(text) ==
    LET found == ExtractElements(text, 1, "item")
    IN [i \in 1..Len(found) |->
          LET link == ExtractElementValue(found[i], "link")
          IN [description |->
                  ConvertHtmlToText(ExtractElementValue(found[i], "description"))
                      \o <<NL, NL, "This", " ", "post", " ", "was", " ", "first", " ",
                           "seen", " ", "on", " ">> \o link,
              link |-> link,
              pubDate |-> ExtractElementValue(found[i], "pubDate")]]

\* ----------------------------------------------------------------- state
VARIABLES
    kv,           \* the KV namespace: key -> stored value
    clock,        \* the wall clock, ms
    feedUrl,      \* RSS_FEED_URL of the environment
    cycles,       \* scheduled ticks so far
    failures,     \* failing external calls so far
    published,    \* the links a status POST was issued for in the run
    allRecent,    \* every item of every feed so far was inside the window
    pc,           \* per cycle: where processLatestPosts is suspended
    posts,        \* per cycle: the posts of fetchAllPosts
    idx,          \* per cycle: the post the loop is at
    nowUTC,       \* per cycle: nowUTC of processPostsRecursively
    thirtyMinutesAgoUTC,
    fetchRes,     \* per cycle: how the feed fetch ended
    itemLog,      \* per cycle: what was done for each post
    errLogs,      \* per cycle: console.error calls
    escaped,      \* per cycle: an error left processLatestPosts
    kvAtStart,    \* per cycle: the stored link when the cycle began
    lastReq,      \* the link of the latest status POST, forgotten when the
                  \* ledger write that follows it fails
    feedDoc,      \* the elements rssText is the text of
    rssText,      \* a feed text given to extractElements
    extracted,    \* the posts built from rssText
    html,         \* a description given to convertHtmlToText
    converted,    \* convertHtmlToText(html)
    reconverted   \* convertHtmlToText(converted)

vars == <<kv, clock, feedUrl, cycles, failures, published, allRecent, pc, posts,
          idx, nowUTC, thirtyMinutesAgoUTC, fetchRes, itemLog, errLogs, escaped,
          kvAtStart, lastReq, feedDoc, rssText, extracted, html, converted,
          reconverted>>

globals == <<kv, clock, feedUrl, cycles, failures, published, allRecent, lastReq>>

\* the strings the text functions are applied to, apart from the pipeline
textVars == <<feedDoc, rssText, extracted, html, converted, reconverted>>

\* the state of the cycles
cycleVars == <<kv, clock, feedUrl, cycles, failures, published, allRecent, pc, posts,
               idx, nowUTC, thirtyMinutesAgoUTC, fetchRes, itemLog, errLogs, escaped,
               kvAtStart, lastReq>>

\* no cycle has started
Idle ==
    /\ kv = [k \in Keys |-> Absent]
    /\ clock = T0
    /\ feedUrl \in FeedUrls
    /\ cycles = 0
    /\ failures = 0
    /\ published = {}
    /\ allRecent = TRUE
    /\ pc = [p \in Procs |-> "idle"]
    /\ posts = [p \in Procs |-> <<>>]
    /\ idx = [p \in Procs |-> 0]
    /\ nowUTC = [p \in Procs |-> 0]
    /\ thirtyMinutesAgoUTC = [p \in Procs |-> 0]
    /\ fetchRes = [p \in Procs |-> "none"]
    /\ itemLog = [p \in Procs |-> <<>>]
    /\ errLogs = [p \in Procs |-> 0]
    /\ escaped = [p \in Procs |-> FALSE]
    /\ kvAtStart = [p \in Procs |-> Absent]
    /\ lastReq = Absent

Init ==
    /\ Idle
    /\ feedDoc = <<>>
    /\ rssText = <<>>
    /\ extracted = <<>>
    /\ html = <<>>
    /\ converted = <<>>
    /\ reconverted = <<>>

\* ---------------------------------------------------------------- steps
Failed(kind) == kind \in {"http_error", "network_error", "fail"}

\* processPostsRecursively from post i on, up to its next await: the posts
\* older than the window are skipped, the first other one has its
\* isPostAlreadyPublished call started; past the last post the cycle is over.
LoopFrom(p, ps, i, log, threshold) ==
    LET j == SkipOld(ps, i, threshold) IN
    /\ idx' = [idx EXCEPT ![p] = j]
    /\ itemLog' = [itemLog EXCEPT ![p] = MarkChecked(log, ps, i, j, threshold)]
    /\ pc' = [pc EXCEPT ![p] = IF j > Len(ps) THEN "done" ELSE "get"]

FreeSlot(p) == pc[p] = "idle" /\ \A q \in Procs : q < p => pc[q] # "idle"

\* The scheduled handler calls processLatestPosts, which calls fetchAllPosts:
\* a malformed URL throws before the fetch, otherwise the fetch is issued.
StartCycle(p) ==
    /\ cycles < MaxCycles
    /\ cycles' = cycles + 1
    /\ kvAtStart' = [kvAtStart EXCEPT ![p] = kv[LAST_POST_KEY]]
    /\ LET r == FetchAllPosts(feedUrl, [kind |-> "reject", status |-> 0, body |-> <<>>])
           c == TopLevelCatch(r.threw)
       IN IF ~IsValidUrl(feedUrl)
          THEN /\ pc' = [pc EXCEPT ![p] = "done"]
               /\ fetchRes' = [fetchRes EXCEPT ![p] = "invalid_url"]
               /\ errLogs' = [errLogs EXCEPT ![p] = r.logged + c.logged]
               /\ escaped' = [escaped EXCEPT ![p] = c.escaped]
          ELSE /\ pc' = [pc EXCEPT ![p] = "fetching"]
               /\ UNCHANGED <<fetchRes, errLogs, escaped>>
    /\ UNCHANGED <<kv, clock, feedUrl, failures, published, allRecent, posts, idx,
                   nowUTC, thirtyMinutesAgoUTC, itemLog, lastReq, textVars>>

\* One tick of the cron trigger; ticks do not overlap.
Scheduled(p) ==
    /\ FreeSlot(p)
    /\ \A q \in Procs : pc[q] = "idle"
    /\ StartCycle(p)

InWindow(post, now) == post.pubDateUTC.valid /\ post.pubDateUTC.ms >= now - Window

\* The feed fetch returns (or rejects): fetchAllPosts parses and maps the
\* items, processLatestPosts ends on an error or on an empty list, otherwise
\* processPostsRecursively fixes its threshold and enters the loop.
FetchReturn(p) ==
    /\ pc[p] = "fetching"
    /\ \E resp \in FeedResponses :
        LET bad == resp.kind = "reject" \/ ~ResponseOk(resp)
            r == FetchAllPosts(feedUrl, resp)
            c == TopLevelCatch(r.threw)
            now == clock
            threshold == now - Window
        IN
        /\ bad => failures < MaxFailures
        /\ failures' = IF bad THEN failures + 1 ELSE failures
        /\ fetchRes' = [fetchRes EXCEPT ![p] =
              IF resp.kind = "reject" THEN "network_error"
              ELSE IF ResponseOk(resp) THEN "ok" ELSE "http_error"]
        /\ errLogs' = [errLogs EXCEPT ![p] = @ + r.logged + c.logged]
        /\ escaped' = [escaped EXCEPT ![p] = c.escaped]
        /\ posts' = [posts EXCEPT ![p] = r.posts]
        /\ IF r.threw \/ Len(r.posts) = 0
           THEN /\ pc' = [pc EXCEPT ![p] = "done"]
                /\ itemLog' = [itemLog EXCEPT ![p] = <<>>]
                /\ UNCHANGED <<idx, nowUTC, thirtyMinutesAgoUTC, allRecent>>
           ELSE /\ nowUTC' = [nowUTC EXCEPT ![p] = now]
                /\ thirtyMinutesAgoUTC' = [thirtyMinutesAgoUTC EXCEPT ![p] = threshold]
                /\ allRecent' = (allRecent /\
                       \A i \in 1..Len(r.posts) : InWindow(r.posts[i], now))
                /\ LoopFrom(p, r.posts, 1, [i \in 1..Len(r.posts) |-> NewLog], threshold)
    /\ UNCHANGED <<kv, clock, feedUrl, cycles, published, kvAtStart, lastReq,
                   textVars>>

\* kvNamespace.get returns (or throws): isPostAlreadyPublished answers, the
\* loop skips a post already published or issues the status POST.
GetReturn(p) ==
    /\ pc[p] = "get"
    /\ \E result \in StoreResults :
        LET i == idx[p]
            link == posts[p][i].link
            stored == LedgerRead(kv[LAST_POST_KEY], kvAtStart[p])
            already == IsPostAlreadyPublished(link, result, stored)
            log == [itemLog[p] EXCEPT ![i].read = result,
                                      ![i].seen = IF result = "ok" THEN stored ELSE Absent]
        IN
        /\ result = "fail" => failures < MaxFailures
        /\ failures' = IF result = "fail" THEN failures + 1 ELSE failures
        /\ errLogs' = [errLogs EXCEPT ![p] = IF result = "fail" THEN @ + 1 ELSE @]
        /\ IF already
           THEN /\ LoopFrom(p, posts[p], Continue(posts[p], i, log), log,
                            Threshold(thirtyMinutesAgoUTC[p], clock))
                /\ UNCHANGED <<published, lastReq>>
           ELSE /\ pc' = [pc EXCEPT ![p] = "post"]
                /\ itemLog' = [itemLog EXCEPT ![p] = [log EXCEPT ![i].pub = "pending",
                                                                 ![i].reqs = 1]]
                /\ published' = published \cup {link}
                /\ lastReq' = link
                /\ UNCHANGED idx
    /\ UNCHANGED <<kv, clock, feedUrl, cycles, allRecent, posts, nowUTC,
                   thirtyMinutesAgoUTC, fetchRes, escaped, kvAtStart, textVars>>

\* The status POST returns (or rejects): publishToMastodon ends, and when it
\* returns normally savePublishedPost issues kvNamespace.put; when it throws,
\* the catch of the loop logs and goes to the next post.
PublishReturn(p) ==
    /\ pc[p] = "post"
    /\ \E resp \in PostResponses :
        LET i == idx[p]
            r == PublishToMastodon(resp)
            log == [itemLog[p] EXCEPT ![i].pub = PostKind(resp),
                                      ![i].reqs = r.sent,
                                      ![i].outcome = r.outcome]
        IN
        /\ Failed(PostKind(resp)) => failures < MaxFailures
        /\ failures' = IF Failed(PostKind(resp)) THEN failures + 1 ELSE failures
        /\ IF r.outcome = "threw"
           THEN /\ errLogs' = [errLogs EXCEPT ![p] = @ + r.logged + 1]
                /\ LoopFrom(p, posts[p], Continue(posts[p], i, log), log,
                            Threshold(thirtyMinutesAgoUTC[p], clock))
           ELSE /\ errLogs' = [errLogs EXCEPT ![p] = @ + r.logged]
                /\ pc' = [pc EXCEPT ![p] = "put"]
                /\ itemLog' = [itemLog EXCEPT ![p] = [log EXCEPT ![i].put = "pending"]]
                /\ UNCHANGED idx
    /\ UNCHANGED <<kv, clock, feedUrl, cycles, published, allRecent, posts, nowUTC,
                   thirtyMinutesAgoUTC, fetchRes, escaped, kvAtStart, lastReq,
                   textVars>>

\* kvNamespace.put returns (or throws): savePublishedPost ends, the loop goes
\* to the next post.
PutReturn(p) ==
    /\ pc[p] = "put"
    /\ \E result \in StoreResults :
        LET i == idx[p]
            link == posts[p][i].link
            log == [itemLog[p] EXCEPT ![i].put = result]
        IN
        /\ result = "fail" => failures < MaxFailures
        /\ failures' = IF result = "fail" THEN failures + 1 ELSE failures
        /\ errLogs' = [errLogs EXCEPT ![p] = IF result = "fail" THEN @ + 1 ELSE @]
        /\ kv' = IF result = "ok" THEN KvPut(kv, LAST_POST_KEY, link) ELSE kv
        /\ lastReq' = IF result = "ok" THEN lastReq ELSE Absent
        /\ LoopFrom(p, posts[p], Continue(posts[p], i, log), log,
                    Threshold(thirtyMinutesAgoUTC[p], clock))
    /\ UNCHANGED <<clock, feedUrl, cycles, published, allRecent, posts, nowUTC,
                   thirtyMinutesAgoUTC, fetchRes, escaped, kvAtStart, textVars>>

\* processLatestPosts has returned: the invocation is over, nothing of it
\* is kept.
Return(p) ==
    /\ pc[p] = "done"
    /\ pc' = [pc EXCEPT ![p] = "idle"]
    /\ posts' = [posts EXCEPT ![p] = <<>>]
    /\ idx' = [idx EXCEPT ![p] = 0]
    /\ nowUTC' = [nowUTC EXCEPT ![p] = 0]
    /\ thirtyMinutesAgoUTC' = [thirtyMinutesAgoUTC EXCEPT ![p] = 0]
    /\ fetchRes' = [fetchRes EXCEPT ![p] = "none"]
    /\ itemLog' = [itemLog EXCEPT ![p] = <<>>]
    /\ errLogs' = [errLogs EXCEPT ![p] = 0]
    /\ escaped' = [escaped EXCEPT ![p] = FALSE]
    /\ kvAtStart' = [kvAtStart EXCEPT ![p] = Absent]
    /\ UNCHANGED <<globals, textVars>>

\* A second passes.
Tick ==
    /\ clock < T0 + MaxTicks * 1000
    /\ clock' = clock + 1000
    /\ UNCHANGED <<kv, feedUrl, cycles, failures, published, allRecent, pc, posts,
                   idx, nowUTC, thirtyMinutesAgoUTC, fetchRes, itemLog, errLogs,
                   escaped, kvAtStart, lastReq, textVars>>

Next ==
    \/ \E p \in Procs : Scheduled(p)
    \/ \E p \in Procs : FetchReturn(p)
    \/ \E p \in Procs : GetReturn(p)
    \/ \E p \in Procs : PublishReturn(p)
    \/ \E p \in Procs : PutReturn(p)
    \/ \E p \in Procs : Return(p)
    \/ Tick

Spec == Init /\ [][Next]_vars

\* ------------------------------------------------------ the feed parser
\* The elements a feed text is made of: an item block with its link, an item
\* block inside a comment, the items index of an RDF feed, the image of the
\* channel with a link of its own.
FeedNodes ==
    {[kind |-> "item", link |-> "A"], [kind |-> "item", link |-> "B"],
     [kind |-> "comment", link |-> "A"], [kind |-> "items", link |-> ""],
     [kind |-> "image", link |-> "C"]}
FeedDocs == UNION {[1..n -> FeedNodes] : n \in 0..MaxNodes}

Element(name, body) ==
    <<"<", name, ">">> \o body \o <<"<", "/", name, ">">>

Render(node) ==
    CASE node.kind = "item" -> Element("item", Element("link", <<node.link>>))
      [] node.kind = "comment" ->
            <<"<", "!--", " ">> \o Element("item", Element("link", <<node.link>>))
                \o <<" ", "--", ">">>
      [] node.kind = "items" -> Element("items", <<>>)
      [] node.kind = "image" -> Element("image", Element("link", <<node.link>>))

RECURSIVE Flatten(_)
Flatten(parts) == IF parts = <<>> THEN <<>> ELSE Head(parts) \o Flatten(Tail(parts))

RenderFeed(doc) == Flatten([i \in 1..Len(doc) |-> Render(doc[i])])

FeedInit ==
    /\ Idle /\ feedUrl \in WellFormedUrls
    /\ feedDoc \in FeedDocs
    /\ rssText = RenderFeed(feedDoc)
    /\ extracted = <<>>
    /\ html = <<>> /\ converted = <<>> /\ reconverted = <<>>

\* fetchAllPosts parses the text of the response
Extract ==
    /\ Len(extracted) = 0
    /\ extracted' = <<ParseItems(rssText)>>
    /\ UNCHANGED <<cycleVars, feedDoc, rssText, html, converted, reconverted>>

FeedSpec == FeedInit /\ [][Extract]_vars

\* ------------------------------------------------ the description texts
Tag(body) == <<"<">> \o body \o <<">">>
Attr(name, value) == <<" ", name, "=", QUOT>> \o value \o <<QUOT>>

\* plain words and spaces, block tags, references
TextFrags ==
    {<<"x">>, <<" ">>, Tag(<<"br">>), Tag(<<"/", "p">>), <<"&", "amp", ";">>,
     <<"lt", ";">>}
\* image tags: alt before src, src before alt, no alt, an empty alt
ImgFrags ==
    {<<"x">>,
     Tag(<<"img">> \o Attr("alt", <<"d">>) \o Attr("src", <<"u">>)),
     Tag(<<"img">> \o Attr("src", <<"u">>) \o Attr("alt", <<"d">>)),
     Tag(<<"img">> \o Attr("src", <<"u">>)),
     Tag(<<"img">> \o Attr("alt", <<>>) \o Attr("src", <<"u">>))}
\* a hyperlink, its end, a word and a line break
LinkFrags ==
    {<<"x">>, Tag(<<"br">>), Tag(<<"a">> \o Attr("href", <<"u">>)), Tag(<<"/", "a">>)}

Inputs(frags) == {Flatten(d) : d \in UNION {[1..n -> frags] : n \in 0..MaxFrags}}

HtmlInit ==
    /\ Idle /\ feedUrl \in WellFormedUrls
    /\ feedDoc = <<>> /\ rssText = <<>> /\ extracted = <<>>
    /\ html \in Inputs(TextFrags) \cup Inputs(ImgFrags) \cup Inputs(LinkFrags)
    /\ converted = <<>>
    /\ reconverted = <<>>

\* the description of an item goes through convertHtmlToText
Convert ==
    /\ Len(converted) = 0
    /\ converted' = <<ConvertHtmlToText(html)>>
    /\ UNCHANGED <<cycleVars, feedDoc, rssText, extracted, html, reconverted>>

\* and its result goes through it again
Reconvert ==
    /\ Len(converted) = 1 /\ Len(reconverted) = 0
    /\ reconverted' = <<ConvertHtmlToText(converted[1])>>
    /\ UNCHANGED <<cycleVars, feedDoc, rssText, extracted, html, converted>>

HtmlNext == Convert \/ Reconvert

HtmlSpec == HtmlInit /\ [][HtmlNext]_vars

\* ------------------------------------------------- overlapping cycles
\* The scheduled handler starts processLatestPosts at every tick, whether or
\* not the invocation of an earlier tick is over; two ticks are followed.
Overlapping(p) == cycles < Cardinality(Procs) /\ FreeSlot(p) /\ StartCycle(p)

\* every external call succeeds and every post is inside the window
Calm == failures' = 0 /\ allRecent'

ConcNext ==
    \/ \E p \in Procs : Overlapping(p)
    \/ \E p \in Procs : FetchReturn(p) /\ Calm
    \/ \E p \in Procs : GetReturn(p) /\ Calm
    \/ \E p \in Procs : PublishReturn(p) /\ Calm
    \/ \E p \in Procs : PutReturn(p) /\ Calm
    \/ \E p \in Procs : Return(p)

ConcSpec == Init /\ [][ConcNext]_vars

\* ------------------------------------------------------------ properties
Entry(p, i) == itemLog[p][i]
Post(p, i) == posts[p][i]
Items(p) == 1..Len(itemLog[p])
Requested(e) == e.pub # "none"
ItemFailed(e) == Failed(e.read) \/ Failed(e.pub) \/ Failed(e.put)
Deduped(p, i) == Entry(p, i).read = "ok" /\ Entry(p, i).seen = Post(p, i).link
FetchFailed(p) == fetchRes[p] \in {"http_error", "network_error"}

\* failing external calls of the cycle in slot p
CycleFailures(p) ==
    (IF FetchFailed(p) \/ fetchRes[p] = "invalid_url" THEN 1 ELSE 0)
    + Cardinality({i \in Items(p) : Failed(Entry(p, i).read)})
    + Cardinality({i \in Items(p) : Failed(Entry(p, i).pub)})
    + Cardinality({i \in Items(p) : Failed(Entry(p, i).put)})

\* C1: over non-overlapping cycles whose feeds stay inside the window and
\* whose external calls all succeed, no status POST is issued for a link a
\* status POST was already issued for.
C1_AtMostOncePerLink ==
    [][\A p \in Procs :
          (failures' = 0 /\ allRecent' /\ pc[p] = "get" /\ pc'[p] = "post")
              => posts[p][idx[p]].link \notin published]_vars

\* C2: the ledger write for a post is issued only after the status POST for
\* that post, in that cycle, was answered with success; after a non-success
\* answer or a transport failure there is no ledger write for the post.
C2_WriteOnlyAfterSuccess ==
    \A p \in Procs : \A i \in Items(p) :
        Entry(p, i).put # "none" => Entry(p, i).pub = "ok"

\* C3: for a post whose pubDate is missing or unparsable no status POST and
\* no ledger write is ever issued.
C3_InvalidDateNeverPosted ==
    \A p \in Procs : \A i \in Items(p) :
        ~Post(p, i).pubDateUTC.valid
            => Entry(p, i).pub = "none" /\ Entry(p, i).put = "none"

\* C4: when the read of the ledger succeeds and gives the link of the post,
\* no status POST is issued for the post whatever its date; when it gives
\* another value and the post is inside the window, the status POST is issued.
C4_DedupAgainstLedger ==
    \A p \in Procs : \A i \in Items(p) :
        /\ Deduped(p, i) => ~Requested(Entry(p, i))
        /\ (Entry(p, i).read = "ok" /\ Entry(p, i).seen # Post(p, i).link
                /\ InWindow(Post(p, i), nowUTC[p])) => Requested(Entry(p, i))

C4_Witness ==
    \E p \in Procs : \E i, j \in Items(p) :
        /\ Deduped(p, i) /\ ~Requested(Entry(p, i))
        /\ Entry(p, j).read = "ok" /\ Entry(p, j).seen # Post(p, j).link
        /\ InWindow(Post(p, j), nowUTC[p]) /\ Requested(Entry(p, j))

LastWritten(p, j) ==
    /\ Entry(p, j).put = "ok"
    /\ \A k \in Items(p) : k > j => Entry(p, k).put # "ok"

\* C6: a failure while processing one post never prevents the processing of
\* the posts after it: each later post is examined, is read against the
\* ledger when it is not older than the window, has its status POST issued
\* unless the ledger holds its link, and when its POST and its ledger write
\* succeed and it is the last one written, the ledger ends the cycle with
\* its link.
C6_FailureIsolation ==
    \A p \in Procs : pc[p] = "done" =>
        \A i, j \in Items(p) :
            (i < j /\ ItemFailed(Entry(p, i)) /\ Post(p, i).link # Post(p, j).link) =>
                /\ Entry(p, j).recency # "unchecked"
                /\ Entry(p, j).recency = "recent" => Entry(p, j).read # "none"
                /\ (Entry(p, j).recency = "recent" /\ ~Deduped(p, j))
                       => Entry(p, j).pub \notin {"none", "pending"}
                /\ (Entry(p, j).pub = "ok" /\ LastWritten(p, j))
                       => kv[LAST_POST_KEY] = Post(p, j).link

C6_Witness ==
    \E p \in Procs :
        /\ pc[p] = "done" /\ Len(posts[p]) = 2
        /\ Post(p, 1).link # Post(p, 2).link
        /\ Failed(Entry(p, 1).pub)
        /\ Entry(p, 2).pub = "ok" /\ Entry(p, 2).put = "ok"
        /\ kv[LAST_POST_KEY] = Post(p, 2).link

\* C7: when the feed fetch fails (non-success status or transport error) the
\* cycle is over with no status POST, no ledger read and no ledger write,
\* the ledger as it was, and no error leaving processLatestPosts.
C7_FetchFailureAborts ==
    \A p \in Procs : FetchFailed(p) =>
        /\ pc[p] = "done"
        /\ Items(p) = {} /\ posts[p] = <<>>
        /\ kv[LAST_POST_KEY] = kvAtStart[p]
        /\ ~escaped[p]

C7_Witness ==
    \E p \in Procs :
        /\ fetchRes[p] = "http_error" /\ pc[p] = "done"
        /\ kvAtStart[p] \in Links /\ kv[LAST_POST_KEY] = kvAtStart[p]

DistinctLinks(p) ==
    \A i, j \in Items(p) : i # j => Post(p, i).link # Post(p, j).link

\* C8: from an empty ledger, one cycle over posts with distinct links, every
\* call succeeding, issues one status POST for each post inside the window
\* and none for the others, and ends with the ledger holding the link of
\* the last post inside the window.
C8_SingleCycleFromEmpty ==
    \A p \in Procs :
        (pc[p] = "done" /\ fetchRes[p] = "ok" /\ kvAtStart[p] = Absent
            /\ DistinctLinks(p) /\ CycleFailures(p) = 0) =>
            /\ \A i \in Items(p) :
                   InWindow(Post(p, i), nowUTC[p]) <=> Entry(p, i).pub = "ok"
            /\ \A i \in Items(p) :
                   (InWindow(Post(p, i), nowUTC[p])
                    /\ \A k \in Items(p) : k > i => ~InWindow(Post(p, k), nowUTC[p]))
                       => kv[LAST_POST_KEY] = Post(p, i).link

InFlight(p) == pc[p] \in {"fetching", "get", "post", "put"}

\* the awaits a cycle still has before it, at most
Rank(p) ==
    CASE pc[p] = "fetching" -> 4 * (MaxItems + 1)
      [] pc[p] = "get" -> 4 * (Len(posts[p]) - idx[p]) + 3
      [] pc[p] = "post" -> 4 * (Len(posts[p]) - idx[p]) + 2
      [] pc[p] = "put" -> 4 * (Len(posts[p]) - idx[p]) + 1
      [] OTHER -> 0

\* C9: whatever the external calls do, no error leaves processLatestPosts:
\* every failure is logged, a failure of the configuration or of the feed
\* fetch ends the cycle, a suspended cycle can always go on, and each of its
\* steps brings it nearer to its end.
C9_NothingEscapes ==
    /\ [](\A p \in Procs :
            /\ ~escaped[p]
            /\ errLogs[p] >= CycleFailures(p)
            /\ (FetchFailed(p) \/ fetchRes[p] = "invalid_url")
                   => pc[p] = "done" /\ errLogs[p] >= 1
            /\ InFlight(p) => ENABLED (FetchReturn(p) \/ GetReturn(p)
                                          \/ PublishReturn(p) \/ PutReturn(p)))
    /\ [][\A p \in Procs :
            (InFlight(p) /\ <<pc[p], idx[p]>> # <<pc'[p], idx'[p]>>)
                => (Rank(p)' < Rank(p) /\ pc'[p] # "idle")]_vars

C9_Witness ==
    \E p \in Procs :
        /\ pc[p] = "done" /\ ~escaped[p]
        /\ fetchRes[p] \in {"invalid_url", "network_error"}
        /\ errLogs[p] >= 1

\* C10: when the posting API answers with a non-success status,
\* publishToMastodon ends by throwing to its caller.
C10_PublishReportsFailure ==
    \A p \in Procs : \A i \in Items(p) :
        Entry(p, i).pub = "http_error" => Entry(p, i).outcome = "threw"

\* the posts after post i were all taken through the loop
LaterProcessed(p, i) ==
    \A j \in Items(p) : j > i =>
        /\ Entry(p, j).recency # "unchecked"
        /\ Entry(p, j).recency = "recent" => Entry(p, j).read # "none"
        /\ (Entry(p, j).recency = "recent" /\ ~Deduped(p, j))
               => Entry(p, j).pub \notin {"none", "pending"}

\* C11: when the read of the ledger fails, isPostAlreadyPublished answers
\* false: the status POST of the post is issued, even when the ledger holds
\* its link, the failure is logged, no error leaves the cycle and the posts
\* after it are processed.
C11_FailOpenRead ==
    \A p \in Procs : \A i \in Items(p) :
        Entry(p, i).read = "fail" =>
            /\ Requested(Entry(p, i))
            /\ ~escaped[p] /\ errLogs[p] >= 1
            /\ pc[p] # "idle"
            /\ pc[p] = "done" => LaterProcessed(p, i)

C11_Witness ==
    \E p \in Procs :
        /\ pc[p] = "done" /\ Len(posts[p]) = 2
        /\ Entry(p, 1).read = "fail"
        /\ kvAtStart[p] = Post(p, 1).link
        /\ Entry(p, 1).pub = "ok" /\ Entry(p, 1).put = "ok"
        /\ Post(p, 2).link # Post(p, 1).link /\ Entry(p, 2).pub = "ok"

\* C12: when the ledger write after a status POST fails, the error goes no
\* further than savePublishedPost: the stored value is left as it was, the
\* failure is logged, the loop goes to the next post, the posts after it are
\* processed and no error leaves the cycle.
C12_FailedWriteIsContained ==
    /\ [](\A p \in Procs : \A i \in Items(p) :
            Entry(p, i).put = "fail" =>
                /\ ~escaped[p] /\ errLogs[p] >= 1
                /\ pc[p] # "idle"
                /\ pc[p] = "done" => LaterProcessed(p, i))
    /\ [][\A p \in Procs :
            (pc[p] = "put" /\ itemLog'[p][idx[p]].put = "fail") =>
                /\ kv' = kv
                /\ idx'[p] > idx[p]
                /\ pc'[p] \in {"get", "done"}]_vars

C12_Witness ==
    \E p \in Procs :
        /\ pc[p] = "done" /\ Len(posts[p]) = 2
        /\ Entry(p, 1).pub = "ok" /\ Entry(p, 1).put = "fail"
        /\ Post(p, 2).link # Post(p, 1).link
        /\ Entry(p, 2).pub = "ok" /\ Entry(p, 2).put = "ok"
        /\ kv[LAST_POST_KEY] = Post(p, 2).link

\* C13: with a malformed feed URL every cycle is over before any external
\* call: no feed fetch is issued, the ledger is neither read nor written, no
\* status POST is issued; the error is logged and does not leave the cycle.
C13_MalformedUrlAborts ==
    feedUrl \notin WellFormedUrls =>
        /\ \A p \in Procs :
               /\ pc[p] \in {"idle", "done"}
               /\ fetchRes[p] \in {"none", "invalid_url"}
               /\ posts[p] = <<>> /\ Items(p) = {}
               /\ ~escaped[p]
               /\ pc[p] = "done" => (fetchRes[p] = "invalid_url" /\ errLogs[p] >= 1)
        /\ kv = [k \in Keys |-> Absent]
        /\ published = {} /\ lastReq = Absent
        /\ failures = 0

C13_Witness ==
    \E p \in Procs :
        /\ feedUrl \notin WellFormedUrls
        /\ cycles = 2 /\ pc[p] = "done" /\ fetchRes[p] = "invalid_url"
        /\ kv[LAST_POST_KEY] = Absent /\ published = {}

IsItemBlock(node) == node.kind = "item"

\* C14: for a feed text that holds N item blocks the parser returns N posts,
\* the i-th with the link of the i-th block.
C14_ParserReturnsEachItem ==
    Len(extracted) = 1 =>
        LET blocks == SelectSeq(feedDoc, IsItemBlock)
        IN /\ Len(extracted[1]) = Len(blocks)
           /\ \A i \in 1..Len(blocks) :
                  i <= Len(extracted[1]) => extracted[1][i].link = <<blocks[i].link>>

NoTags(s) == \A i \in 1..Len(s) : s[i] \notin {"<", ">"}
NoReferences(s) == \A i \in 1..Len(s) : s[i] # "&"

\* C15, as the claim states it: on a text without tags convertHtmlToText
\* applied twice gives what it gives applied once.
C15_IdempotentWithoutTags ==
    (Len(reconverted) = 1 /\ NoTags(html)) => reconverted[1] = converted[1]

\* C15: on a text without tags and without character references
\* convertHtmlToText applied twice gives what it gives applied once.
C15_IdempotentOnPlainText ==
    (Len(reconverted) = 1 /\ NoTags(html) /\ NoReferences(html))
        => reconverted[1] = converted[1]

C15_Witness ==
    /\ Len(reconverted) = 1 /\ NoTags(html) /\ NoReferences(html)
    /\ Len(html) = MaxFrags /\ html[1] \in Whitespace /\ html[Len(html)] \in Whitespace
    /\ Len(converted[1]) = 3
    /\ reconverted[1] = converted[1]

\* the tags of the text that open or close p, div or br
BlockTags(h) ==
    {i \in 1..Len(h) :
        /\ h[i] = "<"
        /\ \/ Sym(h, i + 1) \in BlockNames
           \/ Sym(h, i + 1) = "/" /\ Sym(h, i + 2) \in BlockNames}
Newlines(t) == {i \in 1..Len(t) : t[i] = NL}
WordAtBothEnds(h) == Len(h) >= 1 /\ h[1] = "x" /\ h[Len(h)] = "x"

AttrValue(tag, names) ==
    LET K == {k \in 1..Len(tag) : AttrAt(tag, k, names)}
    IN IF K = {} THEN <<>>
       ELSE LET k == Largest(K) IN SubSeq(tag, k + 3, FirstAt(tag, {QUOT}, k + 3) - 1)

\* every image tag with a src rendered as the claim says
RECURSIVE ImagesAsClaimed(_, _)
ImagesAsClaimed(s, i) ==
    IF i > Len(s) THEN <<>>
    ELSE LET e == IF s[i] = "<" /\ Sym(s, i + 1) \in ImgNames
                  THEN FirstAt(s, {">"}, i + 2) ELSE 0
             src == AttrValue(SubSeq(s, i, e), SrcNames)
             alt == AttrValue(SubSeq(s, i, e), AltNames)
         IN IF e > 0 /\ src # <<>>
            THEN <<"[">> \o (IF alt = <<>> THEN <<"Image">> ELSE alt)
                     \o <<"]", " ", "(">> \o src \o <<")">> \o ImagesAsClaimed(s, e + 1)
            ELSE <<s[i]>> \o ImagesAsClaimed(s, i + 1)

\* C17: every image tag with a src becomes "[alt] (src)", with the word
\* Image for an alt that is missing or empty, whatever the order of the two
\* attributes.
C17_ImageRendered ==
    Len(converted) = 1 =>
        converted[1] =
            Trim(StripPass(ImagesAsClaimed(
                LinkPass(BlockPass(DecodeHtmlEntities(html), 1), 1, DotExcludes), 1), 1))

\* C18: every hyperlink with an href becomes "text (url)", also when its text
\* holds a newline that the pass before made of a line break.
C18_LinkRendered ==
    Len(converted) = 1 =>
        converted[1] =
            Trim(StripPass(ImgPass(
                LinkPass(BlockPass(DecodeHtmlEntities(html), 1), 1, {}), 1), 1))

\* C19: over non-overlapping cycles, when the reads and the writes of the
\* ledger succeed, a status POST never carries the link of the status POST
\* issued just before it.
C19_ConsecutiveRequestsDiffer ==
    [][\A p \in Procs :
          (pc[p] = "get" /\ pc'[p] = "post" /\ itemLog'[p][idx[p]].read = "ok")
              => posts[p][idx[p]].link # lastReq]_vars

C19_Witness ==
    \E p \in Procs :
        /\ pc[p] = "post" /\ idx[p] = 2
        /\ Entry(p, 1).read = "ok" /\ Entry(p, 1).put = "ok"
        /\ Entry(p, 2).read = "ok"
        /\ Post(p, 1).link # Post(p, 2).link
        /\ kvAtStart[p] = Post(p, 2).link
        /\ lastReq = Post(p, 2).link

\* C20: two cycles that overlap are not kept apart by any lock or
\* compare-and-swap: a suspended cycle can always take its next step whatever
\* the other cycle is doing, and a ledger write that succeeds stores its link
\* whatever the key holds by then.  So both cycles can post the same link,
\* and the write of one can be overwritten by a write of the other that was
\* decided on an older read (C20_Witness).
C20_NoLockNoCompareAndSwap ==
    /\ [](\A p \in Procs :
            InFlight(p) => ENABLED (FetchReturn(p) \/ GetReturn(p)
                                       \/ PublishReturn(p) \/ PutReturn(p)))
    /\ [][\A p \in Procs :
            (pc[p] = "put" /\ itemLog'[p][idx[p]].put = "ok")
                => kv'[LAST_POST_KEY] = posts[p][idx[p]].link]_vars
    /\ [][\A p \in Procs :
            (pc[p] = "get" /\ itemLog'[p][idx[p]].read = "ok"
                /\ kv[LAST_POST_KEY] # posts[p][idx[p]].link)
                => pc'[p] = "post"]_vars

\* both cycles posted the same link, and the ledger ends with that link
\* although the other link was posted and written after it
C20_Witness ==
    \E p, q \in Procs :
        /\ p # q /\ pc[p] = "done" /\ pc[q] = "done"
        /\ Len(posts[p]) = 2 /\ Len(posts[q]) = 1
        /\ Post(p, 1).link = Post(q, 1).link
        /\ Post(p, 2).link # Post(p, 1).link
        /\ Entry(p, 1).seen = Absent /\ Entry(q, 1).seen = Absent
        /\ Entry(p, 1).pub = "ok" /\ Entry(q, 1).pub = "ok"
        /\ Entry(p, 1).put = "ok" /\ Entry(q, 1).put = "ok"
        /\ Entry(p, 2).seen = Post(p, 1).link
        /\ Entry(p, 2).pub = "ok" /\ Entry(p, 2).put = "ok"
        /\ kv[LAST_POST_KEY] = Post(q, 1).link

\* a step of the loop was taken for the post; every step it gets is over
Started(e) == e.recency # "unchecked"
Finished(e) ==
    \/ e.recency = "old"
    \/ /\ e.recency = "recent" /\ e.read # "none"
       /\ e.pub # "pending" /\ e.put # "pending"
       /\ e.pub # "none" => (e.put # "none" \/ e.outcome = "threw")

\* C21: in a cycle the posts are taken one at a time in feed order: a step is
\* taken for a post only when every step of the posts before it is over, and
\* for one post the ledger read comes after the recency test, the status POST
\* after the ledger read and the ledger write after the answer to the POST.
C21_OneAtATimeInOrder ==
    \A p \in Procs :
        /\ \A i, j \in Items(p) : (i < j /\ Started(Entry(p, j))) => Finished(Entry(p, i))
        /\ \A i \in Items(p) :
               /\ Started(Entry(p, i)) => i <= idx[p]
               /\ (Started(Entry(p, i)) /\ ~Finished(Entry(p, i)))
                      => (i = idx[p] /\ pc[p] \in {"get", "post", "put"})
               /\ Entry(p, i).read # "none" => Entry(p, i).recency = "recent"
               /\ Requested(Entry(p, i)) => Entry(p, i).read # "none"
               /\ Entry(p, i).put # "none" => Entry(p, i).pub \notin {"none", "pending"}

C21_Witness ==
    \E p \in Procs :
        /\ pc[p] = "put" /\ idx[p] = 2
        /\ Entry(p, 1).pub = "ok" /\ Entry(p, 1).put = "ok"
        /\ Entry(p, 2).read = "ok" /\ Entry(p, 2).pub = "ok" /\ Entry(p, 2).put = "pending"

\* C22: in a cycle at most one status POST is sent for a post, whether it
\* succeeds or fails.
C22_NoRetry ==
    \A p \in Procs : \A i \in Items(p) :
        /\ Entry(p, i).reqs <= 1
        /\ Requested(Entry(p, i)) <=> Entry(p, i).reqs = 1

C22_Witness ==
    \E p \in Procs : \E i, j \in Items(p) :
        /\ pc[p] = "done" /\ i < j
        /\ Failed(Entry(p, i).pub) /\ Entry(p, i).reqs = 1
        /\ Post(p, j).link = Post(p, i).link /\ Entry(p, j).reqs = 0

\* C23: when the feed is fetched and holds no item the cycle is over at once:
\* no ledger read, no ledger write, no status POST, the ledger as it was,
\* nothing logged as an error.
C23_EmptyFeedIsNoOp ==
    \A p \in Procs :
        (fetchRes[p] = "ok" /\ posts[p] = <<>>) =>
            /\ pc[p] = "done"
            /\ Items(p) = {}
            /\ kv[LAST_POST_KEY] = kvAtStart[p]
            /\ errLogs[p] = 0 /\ ~escaped[p]

C23_Witness ==
    \E p \in Procs :
        /\ fetchRes[p] = "ok" /\ posts[p] = <<>> /\ pc[p] = "done"
        /\ kvAtStart[p] \in Links /\ kv[LAST_POST_KEY] = kvAtStart[p]
        /\ published # {}

\* how far the loop of the cycle is
Progress(p) ==
    CASE pc[p] = "get" -> 3 * idx[p]
      [] pc[p] = "post" -> 3 * idx[p] + 1
      [] pc[p] = "put" -> 3 * idx[p] + 2
      [] pc[p] = "done" -> 3 * (Len(posts[p]) + 1)
      [] OTHER -> 0

\* C24: a cycle whose calls all return or fail comes to its end, and by then
\* each parsed post went through the recency test once, whichever posts
\* failed: a suspended cycle can always go on, each step of the loop takes it
\* further, the loop never goes past the last post, and no post is tested
\* twice.
C24_EachItemVisitedOnce ==
    /\ [](\A p \in Procs :
            /\ Len(itemLog[p]) \in {0, Len(posts[p])}
            /\ \A i \in Items(p) : Entry(p, i).checks <= 1
            /\ (pc[p] = "done" /\ fetchRes[p] = "ok") =>
                   /\ Len(itemLog[p]) = Len(posts[p])
                   /\ \A i \in Items(p) : Entry(p, i).checks = 1
            /\ InFlight(p) => /\ idx[p] <= Len(posts[p])
                              /\ ENABLED (FetchReturn(p) \/ GetReturn(p)
                                             \/ PublishReturn(p) \/ PutReturn(p)))
    /\ [][\A p \in Procs :
            (pc[p] \in {"get", "post", "put"}
                /\ <<pc[p], idx[p]>> # <<pc'[p], idx'[p]>>)
                => (Progress(p)' > Progress(p) /\ idx'[p] <= Len(posts[p]) + 1)]_vars

C24_Witness ==
    \E p \in Procs :
        /\ pc[p] = "done" /\ fetchRes[p] = "ok" /\ Len(posts[p]) = 2
        /\ Failed(Entry(p, 1).read)
        /\ Entry(p, 1).checks = 1 /\ Entry(p, 2).checks = 1

\* C25: the threshold of a cycle is its nowUTC minus 30 minutes, fixed before
\* the first post is examined: every post of the cycle is classified against
\* it, so two posts with the same date are classified alike whatever their
\* place in the feed and however long the calls for the posts before took.
C25_OneThresholdPerCycle ==
    \A p \in Procs : Len(itemLog[p]) > 0 =>
        /\ thirtyMinutesAgoUTC[p] = nowUTC[p] - Window
        /\ nowUTC[p] <= clock
        /\ \A i \in Items(p) : Started(Entry(p, i)) =>
               (Entry(p, i).recency = "old"
                    <=> (Post(p, i).pubDateUTC.valid
                         /\ Post(p, i).pubDateUTC.ms < nowUTC[p] - Window))
        /\ \A i, j \in Items(p) :
               (Started(Entry(p, i)) /\ Started(Entry(p, j))
                    /\ Post(p, i).pubDateUTC = Post(p, j).pubDateUTC)
                   => Entry(p, i).recency = Entry(p, j).recency

C25_Witness ==
    \E p \in Procs :
        /\ Len(posts[p]) = 2 /\ clock > nowUTC[p]
        /\ Post(p, 1).pubDateUTC = [valid |-> TRUE, ms |-> nowUTC[p] - Window]
        /\ Post(p, 2).pubDateUTC = Post(p, 1).pubDateUTC
        /\ Post(p, 1).link # Post(p, 2).link
        /\ Entry(p, 1).put = "ok"
        /\ Entry(p, 2).recency = "recent" /\ Entry(p, 2).pub = "ok"

\* posts i and i + 1 carry the same link and the ledger calls made for them
\* succeeded
SamePair(p, i) ==
    /\ i + 1 \in Items(p)
    /\ Post(p, i).link = Post(p, i + 1).link
    /\ Entry(p, i).read = "ok" /\ Entry(p, i + 1).read = "ok"
    /\ Entry(p, i).put \in {"none", "ok"}

\* C26, as the claim states it: a feed with the same link twice in a row,
\* both inside the window, the ledger calls succeeding, gets exactly one
\* status POST for the link in the cycle.
C26_ExactlyOneForTwin ==
    \A p \in Procs : \A i \in Items(p) :
        (pc[p] = "done" /\ SamePair(p, i)
            /\ InWindow(Post(p, i), nowUTC[p]) /\ InWindow(Post(p, i + 1), nowUTC[p]))
            => Cardinality({k \in Items(p) : Post(p, k).link = Post(p, i).link
                                                /\ Requested(Entry(p, k))}) = 1

\* C26: the ledger is read again for every post, so the read for the second
\* of two posts in a row with the same link gives the link the first one
\* stored or found: the second gets no status POST, and the first gets one
\* exactly when the ledger did not hold the link at its read.
C26_TwinIsNotPostedAgain ==
    \A p \in Procs : \A i \in Items(p) :
        SamePair(p, i) =>
            /\ ~Requested(Entry(p, i + 1))
            /\ Entry(p, i + 1).seen = Post(p, i).link
            /\ Requested(Entry(p, i)) <=> Entry(p, i).seen # Post(p, i).link

C26_Witness ==
    \E p \in Procs :
        /\ pc[p] = "done" /\ SamePair(p, 1)
        /\ kvAtStart[p] # Post(p, 1).link
        /\ Entry(p, 1).pub = "ok" /\ Entry(p, 1).put = "ok"
        /\ ~Requested(Entry(p, 2)) /\ Entry(p, 2).seen = Post(p, 1).link

\* C27: the stored link is the initial value or the link of a post a status
\* POST was issued for before; only the key last_post is ever written, it is
\* never deleted, and no ledger write is made for a post the recency test or
\* the ledger check skipped.
C27_LedgerProvenance ==
    /\ [](/\ kv[LAST_POST_KEY] \in {Absent} \cup published
          /\ \A k \in Keys \ {LAST_POST_KEY} : kv[k] = Absent
          /\ \A p \in Procs : \A i \in Items(p) :
                 Entry(p, i).put # "none" =>
                     /\ Entry(p, i).reqs = 1
                     /\ Entry(p, i).recency = "recent"
                     /\ ~Deduped(p, i))
    /\ [][kv' # kv =>
            /\ kv'[LAST_POST_KEY] \in Links
            /\ \E p \in Procs :
                   /\ pc[p] = "put"
                   /\ kv'[LAST_POST_KEY] = posts[p][idx[p]].link
                   /\ itemLog[p][idx[p]].reqs = 1]_vars

C27_Witness ==
    \E p \in Procs : \E i, j \in Items(p) :
        /\ pc[p] = "done"
        /\ Entry(p, i).recency = "old" /\ Entry(p, j).put = "ok"
        /\ Post(p, i).link # Post(p, j).link
        /\ kvAtStart[p] = Post(p, i).link
        /\ kv[LAST_POST_KEY] = Post(p, j).link

====
